---- MODULE Spec2Model ----
(***************************************************************************)
(* Model of AnimeHindiAPI: the slug generator, the candidate URL builder,  *)
(* the interception scan of fetch_video_url (src/app.py, src/video.py) and *)
(* the GET /api/video handler (src/app.py).  The two fetch_video_url        *)
(* differ only in the browser engine and the user-agent string; line       *)
(* numbers in comments are those of src/app.py.                            *)
(*                                                                         *)
(* Text is modelled as a sequence of one-character strings, so that the    *)
(* regular expressions, the percent-encoding, the f-string formatting and  *)
(* the substring test of the handler are computed, not assumed.            *)
(***************************************************************************)
EXTENDS Integers, Sequences, FiniteSets, TLC

VARIABLES
    scans,       \* the invocations: requests served, or runs of video.py
    sys_argv,    \* sys.argv of a run of video.py (<<>> for a request)
    impl,        \* whose fetch_video_url runs: "app" (src/app.py) or "video" (src/video.py)
    pc,          \* pc[s]: position of invocation s in get_video_url / fetch_video_url
    title,       \* request.args.get('title')   (None when absent)
    season,      \* request.args.get('season')
    episode,     \* request.args.get('episode')
    calls,       \* number of times fetch_video_url was invoked
    slugs,       \* the pair make_slugs returned to fetch_video_url
    candidates,  \* the list built at the top of fetch_video_url
    playwright,  \* the sync_playwright() context manager: "none", "running", "stopped"
    browser,     \* "none", "open", "closed"
    engine,      \* the browser engine that was launched ("none" before)
    user_agent,  \* the user_agent the context was created with ("none" before)
    context,     \* "none", "open", "closed"
    page,        \* "none", "open", "closed"
    found,       \* the nonlocal captured by on_request
    listening,   \* whether on_request is registered for "request" on the page
    idx,         \* position of the for loop in candidates (1-based)
    navigated,   \* history: the candidate positions page.goto was called with
    navFailed,   \* history: some navigation (goto or settle wait) raised
    navOk,       \* history: some navigation completed without raising
    scanExc,     \* history: an exception was raised outside the per-candidate try
    lastRequest, \* history: the last request the page emitted
    firstMatch,  \* history: the match of the first matching request the page emitted
    results,     \* the dictionaries fetch_video_url has returned
    responses,   \* the (body, status) pairs get_video_url has returned
    stdout       \* the lines a run of video.py has printed

vars == <<scans, sys_argv, impl, pc, title, season, episode, calls, slugs,
          candidates, playwright, browser, engine, user_agent, context, page,
          found, listening, idx, navigated, navFailed, navOk, scanExc,
          lastRequest, firstMatch, results, responses, stdout>>

(***************************************************************************)
(* Bounds of the model.                                                    *)
(***************************************************************************)
MaxTitleLen == 2
MaxParamLen == 1
MaxSlugTitleLen == 4
MaxArgs == 4

(***************************************************************************)
(* Python values.                                                          *)
(***************************************************************************)
None == <<"None">>

\* Truth value of an `if x:` / `not x` test on a str-or-None value.
Truthy(x) == x # None /\ x # <<>>

RECURSIVE Concat(_)
Concat(parts) ==
    IF parts = <<>> THEN <<>> ELSE Head(parts) \o Concat(Tail(parts))

\* All sequences over `chars` of length at most n.
RECURSIVE SeqsUpTo(_, _)
SeqsUpTo(chars, n) ==
    IF n = 0 THEN {<<>>}
    ELSE LET shorter == SeqsUpTo(chars, n - 1)
         IN  shorter \cup {Append(t, c) : t \in shorter, c \in chars}

(***************************************************************************)
(* Character classes.                                                      *)
(***************************************************************************)
UpperChars == <<"A","B","C","D","E","F","G","H","I","J","K","L","M","N","O","P","Q","R","S","T","U","V","W","X","Y","Z">>
LowerChars == <<"a","b","c","d","e","f","g","h","i","j","k","l","m","n","o","p","q","r","s","t","u","v","w","x","y","z">>
DigitChars == <<"0","1","2","3","4","5","6","7","8","9">>

Range(f) == {f[k] : k \in DOMAIN f}

AsciiLetters == Range(UpperChars) \cup Range(LowerChars)
AsciiDigits == Range(DigitChars)
\* Non-ASCII letters of the model's alphabet, with their lower-case forms and
\* the percent-encoding of their UTF-8 bytes.
UnicodeUpper == <<"U+00C9">>
UnicodeLower == <<"U+00E9">>
Utf8Quoted(c) ==
    CASE c = "U+00E9" -> <<"%","C","3","%","A","9">>
      [] c = "U+00C9" -> <<"%","C","3","%","8","9">>
      [] c = "!" -> <<"%","2","1">>
      [] c = "/" -> <<"%","2","F">>
      [] c = "?" -> <<"%","3","F">>
      [] c = "=" -> <<"%","3","D">>
      [] c = ":" -> <<"%","3","A">>
      [] c = "+" -> <<"%","2","B">>
      [] c = "%" -> <<"%","2","5">>

SpaceChars == {" ", "\t", "\n"}
IsSpace(c) == c \in SpaceChars
\* \w of a str pattern: Unicode letters and digits, and the underscore.
IsWord(c) ==
    c \in AsciiLetters \cup AsciiDigits \cup Range(UnicodeUpper)
          \cup Range(UnicodeLower) \cup {"_"}

\* str.lower() on one character.
LowerChar(c) ==
    IF \E k \in DOMAIN UpperChars : UpperChars[k] = c
    THEN LowerChars[CHOOSE k \in DOMAIN UpperChars : UpperChars[k] = c]
    ELSE IF \E k \in DOMAIN UnicodeUpper : UnicodeUpper[k] = c
    THEN UnicodeLower[CHOOSE k \in DOMAIN UnicodeUpper : UnicodeUpper[k] = c]
    ELSE c

lower(s) == [k \in DOMAIN s |-> LowerChar(s[k])]

\* str.strip(chars): drop the leading and trailing characters that are in `drop`.
RECURSIVE lstrip(_, _)
lstrip(s, drop) ==
    IF s # <<>> /\ Head(s) \in drop THEN lstrip(Tail(s), drop) ELSE s

RECURSIVE rstrip(_, _)
rstrip(s, drop) ==
    IF s # <<>> /\ s[Len(s)] \in drop
    THEN rstrip(SubSeq(s, 1, Len(s) - 1), drop)
    ELSE s

strip(s, drop) == rstrip(lstrip(s, drop), drop)

\* re.sub(r"[^\w\s-]", "", s): delete every character outside the class.
RECURSIVE DeleteOthers(_)
DeleteOthers(s) ==
    IF s = <<>> THEN <<>>
    ELSE IF IsWord(Head(s)) \/ IsSpace(Head(s)) \/ Head(s) = "-"
         THEN <<Head(s)>> \o DeleteOthers(Tail(s))
         ELSE DeleteOthers(Tail(s))

\* re.sub(r"\s+", "-", s): each maximal run of whitespace becomes one hyphen.
RECURSIVE SpacesToHyphen(_)
SpacesToHyphen(s) ==
    IF s = <<>> THEN <<>>
    ELSE IF IsSpace(Head(s))
         THEN <<"-">> \o SpacesToHyphen(lstrip(s, SpaceChars))
         ELSE <<Head(s)>> \o SpacesToHyphen(Tail(s))

\* re.sub(r"-+", "-", s): each maximal run of hyphens becomes one hyphen.
RECURSIVE CollapseHyphens(_)
CollapseHyphens(s) ==
    IF s = <<>> THEN <<>>
    ELSE IF Head(s) = "-"
         THEN <<"-">> \o CollapseHyphens(lstrip(s, {"-"}))
         ELSE <<Head(s)>> \o CollapseHyphens(Tail(s))

\* urllib.parse.quote_plus(s): letters, digits and "_.-~" are kept, a space
\* becomes "+", every other character is the %XX form of its UTF-8 bytes.
QuoteSafe == AsciiLetters \cup AsciiDigits \cup {"_", ".", "-", "~"}

RECURSIVE quote_plus(_)
quote_plus(s) ==
    IF s = <<>> THEN <<>>
    ELSE (IF Head(s) \in QuoteSafe THEN <<Head(s)>>
          ELSE IF Head(s) = " " THEN <<"+">>
          ELSE Utf8Quoted(Head(s))) \o quote_plus(Tail(s))

\* Faulty variant of make_slugs: the title is not lower-cased.
make_slugs_keeps_case(animetitle) ==
    CHOOSE pair \in
        { <<base, quote_plus(base)>> :
            base \in { strip(base3, {"-"}) :
              base3 \in { CollapseHyphens(base2) :
                base2 \in { SpacesToHyphen(base1) :
                  base1 \in { DeleteOthers(base0) :
                    base0 \in { strip(animetitle, SpaceChars) } } } } } } :
        TRUE

\* Faulty variant of make_slugs: the encoded form is taken from the lower-cased
\* title instead of from base.
make_slugs_encodes_title(animetitle) ==
    CHOOSE pair \in
        { <<base, quote_plus(lower(strip(animetitle, SpaceChars)))>> :
            base \in { strip(base3, {"-"}) :
              base3 \in { CollapseHyphens(base2) :
                base2 \in { SpacesToHyphen(base1) :
                  base1 \in { DeleteOthers(base0) :
                    base0 \in { lower(strip(animetitle, SpaceChars)) } } } } } } :
        TRUE

\* make_slugs, lines 19-25.  Each assignment to base is bound to its value
\* before the next statement uses it.
make_slugs(animetitle) ==
    CHOOSE pair \in
        { <<base, quote_plus(base)>> :
            base \in { strip(base3, {"-"}) :
              base3 \in { CollapseHyphens(base2) :
                base2 \in { SpacesToHyphen(base1) :
                  base1 \in { DeleteOthers(base0) :
                    base0 \in { lower(strip(animetitle, SpaceChars)) } } } } } } :
        TRUE

SiteUrl == <<"h","t","t","p","s",":","/","/","a","n","i","m","e","d","e","k","h","o",".","c","o","/">>
EpiPath == <<"e","p","i","/">>
EpisodesPath == <<"e","p","i","s","o","d","e","s","/">>


\* Faulty variant of make_candidate_urls: the two join styles come in the other order.
make_candidate_urls_swapped(slug, s, e) ==
    << Concat(<<SiteUrl, EpiPath, slug, <<"/">>, s, <<"x">>, e, <<"/">> >>),
       Concat(<<SiteUrl, EpisodesPath, slug, <<"/">>, s, <<"x">>, e, <<"/">> >>),
       Concat(<<SiteUrl, EpiPath, slug, <<"-">>, s, <<"x">>, e, <<"/">> >>),
       Concat(<<SiteUrl, EpisodesPath, slug, <<"-">>, s, <<"x">>, e, <<"/">> >>) >>

make_candidate_urls(slug, s, e) ==
    << Concat(<<SiteUrl, EpiPath, slug, <<"-">>, s, <<"x">>, e, <<"/">> >>),
       Concat(<<SiteUrl, EpisodesPath, slug, <<"-">>, s, <<"x">>, e, <<"/">> >>),
       Concat(<<SiteUrl, EpiPath, slug, <<"/">>, s, <<"x">>, e, <<"/">> >>),
       Concat(<<SiteUrl, EpisodesPath, slug, <<"/">>, s, <<"x">>, e, <<"/">> >>) >>

\* candidates = []; for s in slugs: candidates.extend(make_candidate_urls(...))
RECURSIVE ExtendAll(_, _, _)
ExtendAll(list, s, e) ==
    IF list = <<>> THEN <<>>
    ELSE make_candidate_urls(Head(list), s, e) \o ExtendAll(Tail(list), s, e)

BuildCandidates(animetitle, s, e) == ExtendAll(make_slugs(animetitle), s, e)

(***************************************************************************)
(* VIDEO_RE = re.compile(r"https://play\.zephyrflick\.top/video/           *)
(*                         [A-Za-z0-9\-_]+", re.IGNORECASE)                *)
(***************************************************************************)
VideoPrefix == <<"h","t","t","p","s",":","/","/","p","l","a","y",".","z","e","p","h","y","r","f","l","i","c","k",".","t","o","p","/","v","i","d","e","o","/">>

IsIdChar(c) == c \in AsciiLetters \cup AsciiDigits \cup {"-", "_"}

\* The pattern matches at position p of url: the literal prefix, compared
\* without regard to case, then at least one character of the class.
MatchesAt(url, p) ==
    /\ p + Len(VideoPrefix) <= Len(url)
    /\ \A k \in 1..Len(VideoPrefix) : LowerChar(url[p + k - 1]) = VideoPrefix[k]
    /\ IsIdChar(url[p + Len(VideoPrefix)])

\* The last position of the greedy [A-Za-z0-9\-_]+ that starts at position q.
RECURSIVE ClassEnd(_, _)
ClassEnd(url, q) ==
    IF q < Len(url) /\ IsIdChar(url[q + 1]) THEN ClassEnd(url, q + 1) ELSE q

\* VIDEO_RE.search(url), then match.group(0); None when there is no match.
VideoSearch(url) ==
    IF \E p \in 1..Len(url) : MatchesAt(url, p)
    THEN LET p == CHOOSE p \in 1..Len(url) :
                      /\ MatchesAt(url, p)
                      /\ \A q \in 1..(p - 1) : ~MatchesAt(url, q)
         IN  SubSeq(url, p, ClassEnd(url, p + Len(VideoPrefix)))
    ELSE None

(***************************************************************************)
(* Helpers of the request handler.                                         *)
(***************************************************************************)
\* `needle in hay` on str values.
Contains(hay, needle) ==
    \E p \in 0..(Len(hay) - Len(needle)) :
        SubSeq(hay, p + 1, p + Len(needle)) = needle

\* int(s) does not raise ValueError: optional surrounding whitespace, an
\* optional sign, then decimal digits, single underscores allowed between digits.
ParsesAsInt(s) ==
    LET t == strip(s, SpaceChars)
        u == IF t # <<>> /\ Head(t) \in {"+", "-"} THEN Tail(t) ELSE t
    IN  /\ u # <<>>
        /\ \A k \in DOMAIN u : u[k] \in AsciiDigits \cup {"_"}
        /\ u[1] # "_"
        /\ u[Len(u)] # "_"
        /\ \A k \in 1..(Len(u) - 1) : ~(u[k] = "_" /\ u[k + 1] = "_")

NotFoundError == <<"N","o"," ","v","i","d","e","o"," ","U","R","L"," ","f","o","u","n","d","."," ","T","r","y"," ","d","i","f","f","e","r","e","n","t"," ","s","e","a","s","o","n","/","e","p","i","s","o","d","e"," ","n","u","m","b","e","r","s",".">>
NotFoundNeedle == <<"N","o"," ","v","i","d","e","o"," ","U","R","L"," ","f","o","u","n","d">>
ErrorPrefix == <<"A","n"," ","e","r","r","o","r"," ","o","c","c","u","r","r","e","d",":"," ">>
MissingError == <<"M","i","s","s","i","n","g"," ","r","e","q","u","i","r","e","d"," ","p","a","r","a","m","e","t","e","r","s",":"," ","t","i","t","l","e",","," ","s","e","a","s","o","n",","," ","e","p","i","s","o","d","e">>
InvalidError == <<"I","n","v","a","l","i","d"," ","s","e","a","s","o","n"," ","o","r"," ","e","p","i","s","o","d","e"," ","n","u","m","b","e","r">>

\* The three dictionaries fetch_video_url returns.
SuccessResult(f) ==
    [success |-> TRUE, video_url |-> f, message |-> "Video URL found successfully"]
NotFoundResult ==
    [success |-> FALSE, error |-> NotFoundError, message |-> "No video URL found"]
FailureResult(e) ==
    [success |-> FALSE, error |-> ErrorPrefix \o e, message |-> "Failed to fetch video URL"]

\* The two bodies get_video_url returns without calling fetch_video_url.
MissingBody ==
    [success |-> FALSE, error |-> MissingError,
     message |-> "Please provide title, season, and episode as query parameters"]
InvalidBody ==
    [success |-> FALSE, error |-> InvalidError,
     message |-> "Season and episode must be valid numbers"]

\* result.get("error", "")
GetError(result) == IF "error" \in DOMAIN result THEN result.error ELSE <<>>


\* Faulty variant of StatusFor: every failure is answered with 500.
StatusForNo404(result) == IF result.success THEN 200 ELSE 500

\* The status get_video_url answers a result of fetch_video_url with.
StatusFor(result) ==
    IF result.success THEN 200
    ELSE IF Contains(GetError(result), NotFoundNeedle) THEN 404 ELSE 500

(***************************************************************************)
(* Inputs: the query parameters of a request, the requests a page may      *)
(* emit and the messages an exception may carry.                           *)
(***************************************************************************)
TitleChars == {"O", " ", "U+00E9"}
ParamChars == {"1", "x"}
Titles == SeqsUpTo(TitleChars, MaxTitleLen) \cup {None}
Params == SeqsUpTo(ParamChars, MaxParamLen) \cup {None}

\* Titles for make_slugs: letters in both cases, a digit, a space, a hyphen,
\* punctuation, the underscore and a non-ASCII letter.
SlugTitleChars == {"A", "b", "7", " ", "-", "!", "_", "U+00C9"}
SlugTitles == SeqsUpTo(SlugTitleChars, MaxSlugTitleLen)

ReqVideoA == <<"h","t","t","p","s",":","/","/","p","l","a","y",".","z","e","p","h","y","r","f","l","i","c","k",".","t","o","p","/","v","i","d","e","o","/","a","B","-","1","?","t","=","2">>
ReqVideoB == <<"u","=","H","T","T","P","S",":","/","/","P","l","a","y",".","Z","e","p","h","y","r","F","l","i","c","k",".","t","o","p","/","V","I","D","E","O","/","_","9","z">>
ReqNoId == <<"h","t","t","p","s",":","/","/","p","l","a","y",".","z","e","p","h","y","r","f","l","i","c","k",".","t","o","p","/","v","i","d","e","o","/","?","i","d","=","7">>
\* A matching request, a matching request in other letter case inside a longer
\* URL, and a request to the video host without an id (no match).
Requests == {ReqVideoA, ReqVideoB, ReqNoId}

ExcTimeout == <<"T","i","m","e","o","u","t"," ","2","0","0","0","0","m","s"," ","e","x","c","e","e","d","e","d",".","\n","C","a","l","l"," ","l","o","g",":">>
ExcNeedle == <<"N","o"," ","v","i","d","e","o"," ","U","R","L"," ","f","o","u","n","d"," ","i","n"," ","c","a","c","h","e">>
ExcMessages == {ExcTimeout, ExcNeedle}

(***************************************************************************)
(* State.                                                                  *)
(***************************************************************************)
\* The ids an invocation may have; Init says which of them are in use.
ScanIds == {1, 2}

Init ==
    /\ scans = {1}
    /\ sys_argv = [s \in scans |-> <<>>]
    /\ impl = [s \in scans |-> "app"]
    /\ pc = [s \in scans |-> "idle"]
    /\ title = [s \in scans |-> None]
    /\ season = [s \in scans |-> None]
    /\ episode = [s \in scans |-> None]
    /\ calls = [s \in scans |-> 0]
    /\ slugs = [s \in scans |-> <<>>]
    /\ candidates = [s \in scans |-> <<>>]
    /\ playwright = [s \in scans |-> "none"]
    /\ browser = [s \in scans |-> "none"]
    /\ engine = [s \in scans |-> "none"]
    /\ user_agent = [s \in scans |-> "none"]
    /\ context = [s \in scans |-> "none"]
    /\ page = [s \in scans |-> "none"]
    /\ found = [s \in scans |-> None]
    /\ listening = [s \in scans |-> FALSE]
    /\ idx = [s \in scans |-> 1]
    /\ navigated = [s \in scans |-> <<>>]
    /\ navFailed = [s \in scans |-> FALSE]
    /\ navOk = [s \in scans |-> FALSE]
    /\ scanExc = [s \in scans |-> FALSE]
    /\ lastRequest = [s \in scans |-> None]
    /\ firstMatch = [s \in scans |-> None]
    /\ results = [s \in scans |-> <<>>]
    /\ responses = [s \in scans |-> <<>>]
    /\ stdout = [s \in scans |-> <<>>]

inputVars == <<scans, sys_argv, impl, title, season, episode>>
configVars == <<engine, user_agent>>
sessionVars == <<playwright, browser, context, page>>
observerVars == <<found, listening, lastRequest, firstMatch>>
loopVars == <<idx, navigated, navFailed, navOk>>

(***************************************************************************)
(* get_video_url: read the query parameters, validate them, call           *)
(* fetch_video_url.                                                        *)
(***************************************************************************)
\* Line 128: some parameter is absent or empty.
MissingParams(t, se, ep) == ~Truthy(t) \/ ~Truthy(se) \/ ~Truthy(ep)


\* Faulty variant of InvalidNumbers: only the season is converted.
InvalidNumbersSeasonOnly(se, ep) == ~ParsesAsInt(se)

\* Lines 136-139: int(season) or int(episode) raises ValueError.
InvalidNumbers(se, ep) == ~ParsesAsInt(se) \/ ~ParsesAsInt(ep)

get_video_url(s) ==
    /\ s \in scans
    /\ pc[s] = "idle"
    /\ \E t \in Titles, se \in Params, ep \in Params :
         /\ title' = [title EXCEPT ![s] = t]
         /\ season' = [season EXCEPT ![s] = se]
         /\ episode' = [episode EXCEPT ![s] = ep]
         /\ IF MissingParams(t, se, ep)
            THEN /\ responses' = [responses EXCEPT ![s] =
                        Append(@, [body |-> MissingBody, status |-> 400])]
                 /\ pc' = [pc EXCEPT ![s] = "responded"]
                 /\ calls' = calls
            ELSE IF InvalidNumbers(se, ep)
            THEN /\ responses' = [responses EXCEPT ![s] =
                        Append(@, [body |-> InvalidBody, status |-> 400])]
                 /\ pc' = [pc EXCEPT ![s] = "responded"]
                 /\ calls' = calls
            ELSE /\ calls' = [calls EXCEPT ![s] = @ + 1]
                 /\ pc' = [pc EXCEPT ![s] = "build"]
                 /\ responses' = responses
    /\ UNCHANGED <<scans, sys_argv, impl, slugs, candidates, sessionVars, observerVars, loopVars,
                   scanExc, results, stdout, configVars>>

\* Lines 147-153: the result of fetch_video_url is answered with its status.
Respond(s) ==
    /\ s \in scans
    /\ pc[s] = "returned"
    /\ LET result == results[s][Len(results[s])]
       IN  responses' = [responses EXCEPT ![s] =
               Append(@, [body |-> result, status |-> StatusFor(result)])]
    /\ pc' = [pc EXCEPT ![s] = "responded"]
    /\ UNCHANGED <<inputVars, calls, slugs, candidates, sessionVars, observerVars,
                   loopVars, scanExc, results, stdout, configVars>>

(***************************************************************************)
(* fetch_video_url.  Each blocking call of the browser API is one position *)
(* of pc: the call returns, or raises, and while the page is inside goto,  *)
(* wait_for_timeout or context.close the page's request events are         *)
(* dispatched to the registered observer.                                  *)
(***************************************************************************)
\* Lines 50-53.
fetch_video_url(s) ==
    /\ s \in scans
    /\ pc[s] = "build"
    /\ slugs' = [slugs EXCEPT ![s] = make_slugs(title[s])]
    /\ candidates' = [candidates EXCEPT ![s] =
           BuildCandidates(title[s], season[s], episode[s])]
    /\ pc' = [pc EXCEPT ![s] = "start_playwright"]
    /\ UNCHANGED <<inputVars, calls, sessionVars, observerVars, loopVars,
                   scanExc, results, responses, stdout, configVars>>

\* Line 56: with sync_playwright() as p
StartPlaywright(s) ==
    /\ s \in scans
    /\ pc[s] = "start_playwright"
    /\ playwright' = [playwright EXCEPT ![s] = "running"]
    /\ pc' = [pc EXCEPT ![s] = "launch"]
    /\ UNCHANGED <<inputVars, calls, slugs, candidates, browser, context, page,
                   observerVars, loopVars, scanExc, results, responses, stdout,
                   configVars>>

\* Line 58, for engine e: browser = p.<e>.launch(headless=True)
LaunchEngine(s, e) ==
    /\ s \in scans
    /\ pc[s] = "launch"
    /\ browser' = [browser EXCEPT ![s] = "open"]
    /\ engine' = [engine EXCEPT ![s] = e]
    /\ pc' = [pc EXCEPT ![s] = "new_context"]
    /\ UNCHANGED <<inputVars, calls, slugs, candidates, playwright, context, page,
                   observerVars, loopVars, scanExc, results, responses, stdout,
                   user_agent>>

\* Line 58: browser = p.firefox.launch(headless=True)
Launch(s) == LaunchEngine(s, "firefox")

\* Line 59, for user agent ua: context = browser.new_context(user_agent=ua)
NewContextAgent(s, ua) ==
    /\ s \in scans
    /\ pc[s] = "new_context"
    /\ context' = [context EXCEPT ![s] = "open"]
    /\ user_agent' = [user_agent EXCEPT ![s] = ua]
    /\ pc' = [pc EXCEPT ![s] = "new_page"]
    /\ UNCHANGED <<inputVars, calls, slugs, candidates, playwright, browser, page,
                   observerVars, loopVars, scanExc, results, responses, stdout,
                   engine>>

FirefoxAgent ==
    "Mozilla/5.0 (Windows NT 10.0; Win64; x64; rv:91.0) Gecko/20100101 Firefox/91.0"

\* Line 59: context = browser.new_context(user_agent="... Firefox/91.0")
NewContext(s) == NewContextAgent(s, FirefoxAgent)

\* Lines 60-61: page = context.new_page(); found = None
NewPage(s) ==
    /\ s \in scans
    /\ pc[s] = "new_page"
    /\ page' = [page EXCEPT ![s] = "open"]
    /\ found' = [found EXCEPT ![s] = None]
    /\ pc' = [pc EXCEPT ![s] = "page_on"]
    /\ UNCHANGED <<inputVars, calls, slugs, candidates, playwright, browser, context,
                   listening, lastRequest, firstMatch, loopVars, scanExc,
                   results, responses, stdout, configVars>>

\* Line 72: page.on("request", on_request)
PageOn(s) ==
    /\ s \in scans
    /\ pc[s] = "page_on"
    /\ listening' = [listening EXCEPT ![s] = TRUE]
    /\ pc' = [pc EXCEPT ![s] = "loop"]
    /\ UNCHANGED <<inputVars, calls, slugs, candidates, sessionVars, found,
                   lastRequest, firstMatch, loopVars, scanExc, results,
                   responses, stdout, configVars>>


\* Faulty variant of OnRequestFound: the whole request URL is kept, not
\* match.group(0).
OnRequestFoundWholeUrl(f, r) == IF VideoSearch(r) # None THEN r ELSE f

\* Lines 63-70: on_request.  The value of found after the callback ran on r.
OnRequestFound(f, r) ==
    LET match == VideoSearch(r) IN IF match # None THEN match ELSE f


\* Faulty variant of OnRequestListening: the callback never removes itself.
OnRequestStaysRegistered(r) == TRUE

\* Line 70: whether the callback is still registered after it ran on r.
OnRequestListening(r) == VideoSearch(r) = None

\* Faulty variant of Observe: found is one variable of the module, written by
\* the observer of whichever scan sees a request.
ObserveSharedFound(s) ==
    /\ s \in scans
    /\ pc[s] \in {"goto", "wait", "context_close"}
    /\ page[s] = "open"
    /\ \E r \in Requests :
         /\ lastRequest' = [lastRequest EXCEPT ![s] = r]
         /\ firstMatch' = [firstMatch EXCEPT ![s] =
                IF @ = None THEN VideoSearch(r) ELSE @]
         /\ IF listening[s]
            THEN /\ found' = [u \in scans |-> OnRequestFound(found[u], r)]
                 /\ listening' = [listening EXCEPT ![s] = OnRequestListening(r)]
            ELSE UNCHANGED <<found, listening>>
    /\ UNCHANGED <<inputVars, pc, calls, slugs, candidates, sessionVars, loopVars,
                   scanExc, results, responses, stdout, configVars>>

\* The page emits request r; the observer runs when it is registered.
Observe(s) ==
    /\ s \in scans
    /\ pc[s] \in {"goto", "wait", "context_close"}
    /\ page[s] = "open"
    /\ \E r \in Requests :
         /\ lastRequest' = [lastRequest EXCEPT ![s] = r]
         /\ firstMatch' = [firstMatch EXCEPT ![s] =
                IF @ = None THEN VideoSearch(r) ELSE @]
         /\ IF listening[s]
            THEN /\ found' = [found EXCEPT ![s] = OnRequestFound(@, r)]
                 /\ listening' = [listening EXCEPT ![s] = OnRequestListening(r)]
            ELSE UNCHANGED <<found, listening>>
    /\ UNCHANGED <<inputVars, pc, calls, slugs, candidates, sessionVars, loopVars,
                   scanExc, results, responses, stdout, configVars>>



\* Faulty variant of ShouldBreak: the test is inverted to `if not found`, so
\* the loop ends before anything was captured.
ShouldBreakInverted(f) == ~Truthy(f)

\* Faulty variant of ShouldBreak: the loop never tests found.
ShouldBreakNever(f) == FALSE

\* Lines 76-77: if found: break
ShouldBreak(f) == Truthy(f)

\* Line 75: the for loop has another candidate to hand out.
HasNext(i, cands) == i <= Len(cands)

\* Lines 75-79: the next candidate is taken and page.goto is called with it.
ForNext(s) ==
    /\ s \in scans
    /\ pc[s] = "loop"
    /\ HasNext(idx[s], candidates[s])
    /\ ~ShouldBreak(found[s])
    /\ navigated' = [navigated EXCEPT ![s] = Append(@, idx[s])]
    /\ pc' = [pc EXCEPT ![s] = "goto"]
    /\ UNCHANGED <<inputVars, calls, slugs, candidates, sessionVars, observerVars,
                   idx, navFailed, navOk, scanExc, results, responses, stdout,
                   configVars>>

\* Line 79 returns: page.wait_for_timeout(3000) is called.
GotoReturns(s) ==
    /\ s \in scans
    /\ pc[s] = "goto"
    /\ pc' = [pc EXCEPT ![s] = "wait"]
    /\ UNCHANGED <<inputVars, calls, slugs, candidates, sessionVars, observerVars,
                   loopVars, scanExc, results, responses, stdout, configVars>>

\* Line 81 returns: the loop goes on to its next iteration.
WaitReturns(s) ==
    /\ s \in scans
    /\ pc[s] = "wait"
    /\ idx' = [idx EXCEPT ![s] = @ + 1]
    /\ navOk' = [navOk EXCEPT ![s] = TRUE]
    /\ pc' = [pc EXCEPT ![s] = "loop"]
    /\ UNCHANGED <<inputVars, calls, slugs, candidates, sessionVars, observerVars,
                   navigated, navFailed, scanExc, results, responses, stdout,
                   configVars>>



\* Faulty variant of NavigationRaises: the except clause starts the search
\* over and forgets the match captured so far.
NavigationRaisesForgets(s) ==
    /\ s \in scans
    /\ pc[s] \in {"goto", "wait"}
    /\ idx' = [idx EXCEPT ![s] = @ + 1]
    /\ navFailed' = [navFailed EXCEPT ![s] = TRUE]
    /\ found' = [found EXCEPT ![s] = None]
    /\ pc' = [pc EXCEPT ![s] = "loop"]
    /\ UNCHANGED <<inputVars, calls, slugs, candidates, sessionVars, listening,
                   lastRequest, firstMatch, navigated, navOk, scanExc,
                   results, responses, stdout, configVars>>

\* Faulty variant of NavigationRaises: no per-candidate try, the exception reaches the
\* outer except.
NavigationRaisesFatal(s) ==
    /\ s \in scans
    /\ pc[s] \in {"goto", "wait"}
    /\ \E e \in ExcMessages :
         results' = [results EXCEPT ![s] = Append(@, FailureResult(e))]
    /\ playwright' = [playwright EXCEPT ![s] = "stopped"]
    /\ navFailed' = [navFailed EXCEPT ![s] = TRUE]
    /\ pc' = [pc EXCEPT ![s] = "returned"]
    /\ UNCHANGED <<inputVars, calls, slugs, candidates, browser, context, page,
                   observerVars, idx, navigated, navOk, scanExc, responses,
                   stdout, configVars>>

\* Lines 82-84: page.goto or page.wait_for_timeout raises; except: continue
NavigationRaises(s) ==
    /\ s \in scans
    /\ pc[s] \in {"goto", "wait"}
    /\ idx' = [idx EXCEPT ![s] = @ + 1]
    /\ navFailed' = [navFailed EXCEPT ![s] = TRUE]
    /\ pc' = [pc EXCEPT ![s] = "loop"]
    /\ UNCHANGED <<inputVars, calls, slugs, candidates, sessionVars, observerVars,
                   navigated, navOk, scanExc, results, responses, stdout,
                   configVars>>

\* Lines 75-77 and 86: the loop ends (exhausted or break); context.close()
\* is called.
ForExit(s) ==
    /\ s \in scans
    /\ pc[s] = "loop"
    /\ ~HasNext(idx[s], candidates[s]) \/ ShouldBreak(found[s])
    /\ pc' = [pc EXCEPT ![s] = "context_close"]
    /\ UNCHANGED <<inputVars, calls, slugs, candidates, sessionVars, observerVars,
                   loopVars, scanExc, results, responses, stdout, configVars>>


\* Faulty variant of ContextClose: context.close() is left out, the browser
\* is closed over an open context.
ContextCloseLeftOut(s) ==
    /\ s \in scans
    /\ pc[s] = "context_close"
    /\ pc' = [pc EXCEPT ![s] = "browser_close"]
    /\ UNCHANGED <<inputVars, calls, slugs, candidates, sessionVars, observerVars,
                   loopVars, scanExc, results, responses, stdout, configVars>>

\* Line 86 returns: the context and its page are closed; browser.close() is
\* called.
ContextClose(s) ==
    /\ s \in scans
    /\ pc[s] = "context_close"
    /\ context' = [context EXCEPT ![s] = "closed"]
    /\ page' = [page EXCEPT ![s] = "closed"]
    /\ pc' = [pc EXCEPT ![s] = "browser_close"]
    /\ UNCHANGED <<inputVars, calls, slugs, candidates, playwright, browser,
                   observerVars, loopVars, scanExc, results, responses, stdout,
                   configVars>>

\* Line 87 returns.
BrowserClose(s) ==
    /\ s \in scans
    /\ pc[s] = "browser_close"
    /\ browser' = [browser EXCEPT ![s] = "closed"]
    /\ pc' = [pc EXCEPT ![s] = "exit_playwright"]
    /\ UNCHANGED <<inputVars, calls, slugs, candidates, playwright, context, page,
                   observerVars, loopVars, scanExc, results, responses, stdout,
                   configVars>>


\* Faulty variant of ReturnValue: the success dictionary is built without testing found.
ReturnValueUntested(f) == SuccessResult(f)

\* Lines 89-100: the dictionary of the normal return.
ReturnValue(f) == IF Truthy(f) THEN SuccessResult(f) ELSE NotFoundResult

\* Lines 89-100, then the with block is left: the return value is handed out.
PlaywrightExit(s) ==
    /\ s \in scans
    /\ pc[s] = "exit_playwright"
    /\ playwright' = [playwright EXCEPT ![s] = "stopped"]
    /\ results' = [results EXCEPT ![s] = Append(@, ReturnValue(found[s]))]
    /\ pc' = [pc EXCEPT ![s] = "returned"]
    /\ UNCHANGED <<inputVars, calls, slugs, candidates, browser, context, page,
                   observerVars, loopVars, scanExc, responses, stdout,
                   configVars>>

\* The calls outside the per-candidate try that may raise.
ScanRaisePoints ==
    {"start_playwright", "launch", "new_context", "new_page", "page_on",
     "context_close", "browser_close", "exit_playwright"}


\* Faulty variant of ScanRaises: no outer except, the exception leaves the function
\* and no dictionary is returned.
ScanRaisesUncaught(s) ==
    /\ s \in scans
    /\ pc[s] \in ScanRaisePoints
    /\ playwright' = [playwright EXCEPT ![s] =
           IF @ = "running" THEN "stopped" ELSE @]
    /\ scanExc' = [scanExc EXCEPT ![s] = TRUE]
    /\ pc' = [pc EXCEPT ![s] = "returned"]
    /\ UNCHANGED <<inputVars, calls, slugs, candidates, browser, context, page,
                   observerVars, loopVars, results, responses, stdout,
                   configVars>>

\* Lines 102-107: an exception raised outside the per-candidate try leaves
\* the with block (which stops a running playwright) and is caught by the
\* outer except, which returns the failure dictionary.
ScanRaises(s) ==
    /\ s \in scans
    /\ pc[s] \in ScanRaisePoints
    /\ \E e \in ExcMessages :
         results' = [results EXCEPT ![s] = Append(@, FailureResult(e))]
    /\ playwright' = [playwright EXCEPT ![s] =
           IF @ = "running" THEN "stopped" ELSE @]
    /\ scanExc' = [scanExc EXCEPT ![s] = TRUE]
    /\ pc' = [pc EXCEPT ![s] = "returned"]
    /\ UNCHANGED <<inputVars, calls, slugs, candidates, browser, context, page,
                   observerVars, loopVars, responses, stdout, configVars>>

Next ==
    \E s \in ScanIds :
        \/ get_video_url(s)
        \/ fetch_video_url(s)
        \/ StartPlaywright(s)
        \/ Launch(s)
        \/ NewContext(s)
        \/ NewPage(s)
        \/ PageOn(s)
        \/ Observe(s)
        \/ ForNext(s)
        \/ GotoReturns(s)
        \/ WaitReturns(s)
        \/ NavigationRaises(s)
        \/ ForExit(s)
        \/ ContextClose(s)
        \/ BrowserClose(s)
        \/ PlaywrightExit(s)
        \/ ScanRaises(s)
        \/ Respond(s)

Spec == Init /\ [][Next]_vars

\* The steps of invocation s other than the arrival of a request: a call of
\* the handler or of the browser API returns or raises.
Progress(s) ==
    \/ get_video_url(s)
    \/ fetch_video_url(s)
    \/ StartPlaywright(s)
    \/ Launch(s)
    \/ NewContext(s)
    \/ NewPage(s)
    \/ PageOn(s)
    \/ ForNext(s)
    \/ GotoReturns(s)
    \/ WaitReturns(s)
    \/ NavigationRaises(s)
    \/ ForExit(s)
    \/ ContextClose(s)
    \/ BrowserClose(s)
    \/ PlaywrightExit(s)
    \/ ScanRaises(s)
    \/ Respond(s)

\* Every call that was started ends: page.goto is bounded by its timeout of
\* 20000 ms, the settle wait by its 3000 ms, and the other calls return or
\* raise.  Requests may keep arriving meanwhile.
SpecLive == Init /\ [][Next]_vars /\ \A s \in ScanIds : WF_vars(Progress(s))

(***************************************************************************)
(* make_slugs and the candidate list on their own: fetch_video_url is       *)
(* entered with any title (src/video.py passes sys.argv[1] unchecked) and  *)
(* runs lines 50-53.                                                       *)
(***************************************************************************)
InitSlugs ==
    /\ scans = {1}
    /\ sys_argv = [s \in scans |-> <<>>]
    /\ impl = [s \in scans |-> "app"]
    /\ pc = [s \in scans |-> "build"]
    /\ title \in [scans -> SlugTitles]
    /\ season = [s \in scans |-> <<"1">>]
    /\ episode = [s \in scans |-> <<"2">>]
    /\ calls = [s \in scans |-> 1]
    /\ slugs = [s \in scans |-> <<>>]
    /\ candidates = [s \in scans |-> <<>>]
    /\ playwright = [s \in scans |-> "none"]
    /\ browser = [s \in scans |-> "none"]
    /\ engine = [s \in scans |-> "none"]
    /\ user_agent = [s \in scans |-> "none"]
    /\ context = [s \in scans |-> "none"]
    /\ page = [s \in scans |-> "none"]
    /\ found = [s \in scans |-> None]
    /\ listening = [s \in scans |-> FALSE]
    /\ idx = [s \in scans |-> 1]
    /\ navigated = [s \in scans |-> <<>>]
    /\ navFailed = [s \in scans |-> FALSE]
    /\ navOk = [s \in scans |-> FALSE]
    /\ scanExc = [s \in scans |-> FALSE]
    /\ lastRequest = [s \in scans |-> None]
    /\ firstMatch = [s \in scans |-> None]
    /\ results = [s \in scans |-> <<>>]
    /\ responses = [s \in scans |-> <<>>]
    /\ stdout = [s \in scans |-> <<>>]

NextSlugs == \E s \in ScanIds : fetch_video_url(s)

SpecSlugs == InitSlugs /\ [][NextSlugs]_vars

(***************************************************************************)
(* src/video.py: its own VIDEO_RE, make_slugs, make_candidate_urls and     *)
(* fetch_video_url, transcribed from that file.  The library operations    *)
(* (str.strip, str.lower, quote_plus, the character classes) are those     *)
(* above.                                                                  *)
(***************************************************************************)
\* src/video.py, line 17.
RECURSIVE video_DeleteOthers(_)
video_DeleteOthers(s) ==
    IF s = <<>> THEN <<>>
    ELSE IF IsWord(Head(s)) \/ IsSpace(Head(s)) \/ Head(s) = "-"
         THEN <<Head(s)>> \o video_DeleteOthers(Tail(s))
         ELSE video_DeleteOthers(Tail(s))

\* src/video.py, line 18.
RECURSIVE video_SpacesToHyphen(_)
video_SpacesToHyphen(s) ==
    IF s = <<>> THEN <<>>
    ELSE IF IsSpace(Head(s))
         THEN <<"-">> \o video_SpacesToHyphen(lstrip(s, SpaceChars))
         ELSE <<Head(s)>> \o video_SpacesToHyphen(Tail(s))

\* src/video.py, line 19.
RECURSIVE video_CollapseHyphens(_)
video_CollapseHyphens(s) ==
    IF s = <<>> THEN <<>>
    ELSE IF Head(s) = "-"
         THEN <<"-">> \o video_CollapseHyphens(lstrip(s, {"-"}))
         ELSE <<Head(s)>> \o video_CollapseHyphens(Tail(s))

\* src/video.py, lines 14-22.
video_make_slugs(animetitle) ==
    CHOOSE pair \in
        { <<base, quote_plus(base)>> :
            base \in { strip(base3, {"-"}) :
              base3 \in { video_CollapseHyphens(base2) :
                base2 \in { video_SpacesToHyphen(base1) :
                  base1 \in { video_DeleteOthers(base0) :
                    base0 \in { lower(strip(animetitle, SpaceChars)) } } } } } } :
        TRUE

\* src/video.py, lines 27-30.
video_SiteUrl == <<"h","t","t","p","s",":","/","/","a","n","i","m","e","d","e","k","h","o",".","c","o","/">>

\* src/video.py, lines 27-29.
video_EpiPath == <<"e","p","i","/">>

\* src/video.py, lines 28-30.
video_EpisodesPath == <<"e","p","i","s","o","d","e","s","/">>

\* src/video.py, lines 24-31.
video_make_candidate_urls(slug, s, e) ==
    << Concat(<<video_SiteUrl, video_EpiPath, slug, <<"-">>, s, <<"x">>, e, <<"/">> >>),
       Concat(<<video_SiteUrl, video_EpisodesPath, slug, <<"-">>, s, <<"x">>, e, <<"/">> >>),
       Concat(<<video_SiteUrl, video_EpiPath, slug, <<"/">>, s, <<"x">>, e, <<"/">> >>),
       Concat(<<video_SiteUrl, video_EpisodesPath, slug, <<"/">>, s, <<"x">>, e, <<"/">> >>) >>

\* src/video.py, lines 48-50.
RECURSIVE video_ExtendAll(_, _, _)
video_ExtendAll(list, s, e) ==
    IF list = <<>> THEN <<>>
    ELSE video_make_candidate_urls(Head(list), s, e) \o video_ExtendAll(Tail(list), s, e)

\* src/video.py, lines 47-50.
video_BuildCandidates(animetitle, s, e) == video_ExtendAll(video_make_slugs(animetitle), s, e)

\* src/video.py, line 12.
video_VideoPrefix == <<"h","t","t","p","s",":","/","/","p","l","a","y",".","z","e","p","h","y","r","f","l","i","c","k",".","t","o","p","/","v","i","d","e","o","/">>

\* src/video.py, line 12.
video_IsIdChar(c) == c \in AsciiLetters \cup AsciiDigits \cup {"-", "_"}

\* src/video.py, line 12.
video_MatchesAt(url, p) ==
    /\ p + Len(video_VideoPrefix) <= Len(url)
    /\ \A k \in 1..Len(video_VideoPrefix) : LowerChar(url[p + k - 1]) = video_VideoPrefix[k]
    /\ video_IsIdChar(url[p + Len(video_VideoPrefix)])

\* src/video.py, line 12.
RECURSIVE video_ClassEnd(_, _)
video_ClassEnd(url, q) ==
    IF q < Len(url) /\ video_IsIdChar(url[q + 1]) THEN video_ClassEnd(url, q + 1) ELSE q

\* src/video.py, lines 62-64.
video_VideoSearch(url) ==
    IF \E p \in 1..Len(url) : video_MatchesAt(url, p)
    THEN LET p == CHOOSE p \in 1..Len(url) :
                      /\ video_MatchesAt(url, p)
                      /\ \A q \in 1..(p - 1) : ~video_MatchesAt(url, q)
         IN  SubSeq(url, p, video_ClassEnd(url, p + Len(video_VideoPrefix)))
    ELSE None

\* src/video.py, line 94.
video_NotFoundError == <<"N","o"," ","v","i","d","e","o"," ","U","R","L"," ","f","o","u","n","d","."," ","T","r","y"," ","d","i","f","f","e","r","e","n","t"," ","s","e","a","s","o","n","/","e","p","i","s","o","d","e"," ","n","u","m","b","e","r","s",".">>

\* src/video.py, line 101.
video_ErrorPrefix == <<"A","n"," ","e","r","r","o","r"," ","o","c","c","u","r","r","e","d",":"," ">>

\* src/video.py, lines 86-90.
video_SuccessResult(f) ==
    [success |-> TRUE, video_url |-> f, message |-> "Video URL found successfully"]

\* src/video.py, lines 92-96.
video_NotFoundResult ==
    [success |-> FALSE, error |-> video_NotFoundError, message |-> "No video URL found"]

\* src/video.py, lines 99-103.
video_FailureResult(e) ==
    [success |-> FALSE, error |-> video_ErrorPrefix \o e, message |-> "Failed to fetch video URL"]

\* src/video.py, lines 45-50.
video_fetch_video_url(s) ==
    /\ s \in scans
    /\ pc[s] = "build"
    /\ slugs' = [slugs EXCEPT ![s] = video_make_slugs(title[s])]
    /\ candidates' = [candidates EXCEPT ![s] =
           video_BuildCandidates(title[s], season[s], episode[s])]
    /\ pc' = [pc EXCEPT ![s] = "start_playwright"]
    /\ UNCHANGED <<inputVars, calls, sessionVars, observerVars, loopVars,
                   scanExc, results, responses, stdout, configVars>>

\* src/video.py, line 53.
video_StartPlaywright(s) ==
    /\ s \in scans
    /\ pc[s] = "start_playwright"
    /\ playwright' = [playwright EXCEPT ![s] = "running"]
    /\ pc' = [pc EXCEPT ![s] = "launch"]
    /\ UNCHANGED <<inputVars, calls, slugs, candidates, browser, context, page,
                   observerVars, loopVars, scanExc, results, responses, stdout,
                   configVars>>

\* src/video.py, line 54.
video_LaunchEngine(s, e) ==
    /\ s \in scans
    /\ pc[s] = "launch"
    /\ browser' = [browser EXCEPT ![s] = "open"]
    /\ engine' = [engine EXCEPT ![s] = e]
    /\ pc' = [pc EXCEPT ![s] = "new_context"]
    /\ UNCHANGED <<inputVars, calls, slugs, candidates, playwright, context, page,
                   observerVars, loopVars, scanExc, results, responses, stdout,
                   user_agent>>

\* src/video.py, line 54.
video_Launch(s) == video_LaunchEngine(s, "chromium")

\* src/video.py, line 55.
video_NewContextAgent(s, ua) ==
    /\ s \in scans
    /\ pc[s] = "new_context"
    /\ context' = [context EXCEPT ![s] = "open"]
    /\ user_agent' = [user_agent EXCEPT ![s] = ua]
    /\ pc' = [pc EXCEPT ![s] = "new_page"]
    /\ UNCHANGED <<inputVars, calls, slugs, candidates, playwright, browser, page,
                   observerVars, loopVars, scanExc, results, responses, stdout,
                   engine>>

ChromiumAgent == "Mozilla/5.0 (Windows NT 10.0; Win64; x64)"

\* src/video.py, line 55.
video_NewContext(s) == video_NewContextAgent(s, ChromiumAgent)

\* src/video.py, lines 56-57.
video_NewPage(s) ==
    /\ s \in scans
    /\ pc[s] = "new_page"
    /\ page' = [page EXCEPT ![s] = "open"]
    /\ found' = [found EXCEPT ![s] = None]
    /\ pc' = [pc EXCEPT ![s] = "page_on"]
    /\ UNCHANGED <<inputVars, calls, slugs, candidates, playwright, browser, context,
                   listening, lastRequest, firstMatch, loopVars, scanExc,
                   results, responses, stdout, configVars>>

\* src/video.py, line 68.
video_PageOn(s) ==
    /\ s \in scans
    /\ pc[s] = "page_on"
    /\ listening' = [listening EXCEPT ![s] = TRUE]
    /\ pc' = [pc EXCEPT ![s] = "loop"]
    /\ UNCHANGED <<inputVars, calls, slugs, candidates, sessionVars, found,
                   lastRequest, firstMatch, loopVars, scanExc, results,
                   responses, stdout, configVars>>

\* src/video.py, lines 59-64.
video_OnRequestFound(f, r) ==
    LET match == video_VideoSearch(r) IN IF match # None THEN match ELSE f

\* src/video.py, lines 63-66.
video_OnRequestListening(r) == video_VideoSearch(r) = None

\* src/video.py, lines 59-68.
video_Observe(s) ==
    /\ s \in scans
    /\ pc[s] \in {"goto", "wait", "context_close"}
    /\ page[s] = "open"
    /\ \E r \in Requests :
         /\ lastRequest' = [lastRequest EXCEPT ![s] = r]
         /\ firstMatch' = [firstMatch EXCEPT ![s] =
                IF @ = None THEN video_VideoSearch(r) ELSE @]
         /\ IF listening[s]
            THEN /\ found' = [found EXCEPT ![s] = video_OnRequestFound(@, r)]
                 /\ listening' = [listening EXCEPT ![s] = video_OnRequestListening(r)]
            ELSE UNCHANGED <<found, listening>>
    /\ UNCHANGED <<inputVars, pc, calls, slugs, candidates, sessionVars, loopVars,
                   scanExc, results, responses, stdout, configVars>>

\* Faulty variant of video_ShouldBreak: the loop of src/video.py never tests found.
video_ShouldBreakNever(f) == FALSE

\* src/video.py, lines 72-73.
video_ShouldBreak(f) == Truthy(f)

\* src/video.py, line 71.
video_HasNext(i, cands) == i <= Len(cands)

\* src/video.py, lines 71-75.
video_ForNext(s) ==
    /\ s \in scans
    /\ pc[s] = "loop"
    /\ video_HasNext(idx[s], candidates[s])
    /\ ~video_ShouldBreak(found[s])
    /\ navigated' = [navigated EXCEPT ![s] = Append(@, idx[s])]
    /\ pc' = [pc EXCEPT ![s] = "goto"]
    /\ UNCHANGED <<inputVars, calls, slugs, candidates, sessionVars, observerVars,
                   idx, navFailed, navOk, scanExc, results, responses, stdout,
                   configVars>>

\* src/video.py, lines 75-77.
video_GotoReturns(s) ==
    /\ s \in scans
    /\ pc[s] = "goto"
    /\ pc' = [pc EXCEPT ![s] = "wait"]
    /\ UNCHANGED <<inputVars, calls, slugs, candidates, sessionVars, observerVars,
                   loopVars, scanExc, results, responses, stdout, configVars>>

\* src/video.py, line 77.
video_WaitReturns(s) ==
    /\ s \in scans
    /\ pc[s] = "wait"
    /\ idx' = [idx EXCEPT ![s] = @ + 1]
    /\ navOk' = [navOk EXCEPT ![s] = TRUE]
    /\ pc' = [pc EXCEPT ![s] = "loop"]
    /\ UNCHANGED <<inputVars, calls, slugs, candidates, sessionVars, observerVars,
                   navigated, navFailed, scanExc, results, responses, stdout,
                   configVars>>

\* src/video.py, lines 74-80.
video_NavigationRaises(s) ==
    /\ s \in scans
    /\ pc[s] \in {"goto", "wait"}
    /\ idx' = [idx EXCEPT ![s] = @ + 1]
    /\ navFailed' = [navFailed EXCEPT ![s] = TRUE]
    /\ pc' = [pc EXCEPT ![s] = "loop"]
    /\ UNCHANGED <<inputVars, calls, slugs, candidates, sessionVars, observerVars,
                   navigated, navOk, scanExc, results, responses, stdout,
                   configVars>>

\* src/video.py, lines 71-82.
video_ForExit(s) ==
    /\ s \in scans
    /\ pc[s] = "loop"
    /\ ~video_HasNext(idx[s], candidates[s]) \/ video_ShouldBreak(found[s])
    /\ pc' = [pc EXCEPT ![s] = "context_close"]
    /\ UNCHANGED <<inputVars, calls, slugs, candidates, sessionVars, observerVars,
                   loopVars, scanExc, results, responses, stdout, configVars>>

\* src/video.py, line 82.
video_ContextClose(s) ==
    /\ s \in scans
    /\ pc[s] = "context_close"
    /\ context' = [context EXCEPT ![s] = "closed"]
    /\ page' = [page EXCEPT ![s] = "closed"]
    /\ pc' = [pc EXCEPT ![s] = "browser_close"]
    /\ UNCHANGED <<inputVars, calls, slugs, candidates, playwright, browser,
                   observerVars, loopVars, scanExc, results, responses, stdout,
                   configVars>>

\* src/video.py, line 83.
video_BrowserClose(s) ==
    /\ s \in scans
    /\ pc[s] = "browser_close"
    /\ browser' = [browser EXCEPT ![s] = "closed"]
    /\ pc' = [pc EXCEPT ![s] = "exit_playwright"]
    /\ UNCHANGED <<inputVars, calls, slugs, candidates, playwright, context, page,
                   observerVars, loopVars, scanExc, results, responses, stdout,
                   configVars>>

\* src/video.py, lines 85-96.
video_ReturnValue(f) == IF Truthy(f) THEN video_SuccessResult(f) ELSE video_NotFoundResult

\* src/video.py, lines 53-96.
video_PlaywrightExit(s) ==
    /\ s \in scans
    /\ pc[s] = "exit_playwright"
    /\ playwright' = [playwright EXCEPT ![s] = "stopped"]
    /\ results' = [results EXCEPT ![s] = Append(@, video_ReturnValue(found[s]))]
    /\ pc' = [pc EXCEPT ![s] = "returned"]
    /\ UNCHANGED <<inputVars, calls, slugs, candidates, browser, context, page,
                   observerVars, loopVars, scanExc, responses, stdout,
                   configVars>>

\* src/video.py, lines 53-83.
video_ScanRaisePoints ==
    {"start_playwright", "launch", "new_context", "new_page", "page_on",
     "context_close", "browser_close", "exit_playwright"}

\* src/video.py, lines 98-103.
video_ScanRaises(s) ==
    /\ s \in scans
    /\ pc[s] \in video_ScanRaisePoints
    /\ \E e \in ExcMessages :
         results' = [results EXCEPT ![s] = Append(@, video_FailureResult(e))]
    /\ playwright' = [playwright EXCEPT ![s] =
           IF @ = "running" THEN "stopped" ELSE @]
    /\ scanExc' = [scanExc EXCEPT ![s] = TRUE]
    /\ pc' = [pc EXCEPT ![s] = "returned"]
    /\ UNCHANGED <<inputVars, calls, slugs, candidates, browser, context, page,
                   observerVars, loopVars, responses, stdout, configVars>>

(***************************************************************************)
(* The two implementations side by side.  A call of fetch_video_url of      *)
(* either file, with the engine and the user agent as parameters.          *)
(***************************************************************************)
\* One step of fetch_video_url of src/app.py, were it to launch engine e and
\* to create its context with user agent ua.
AppScan(s, e, ua) ==
    \/ fetch_video_url(s)
    \/ StartPlaywright(s)
    \/ LaunchEngine(s, e)
    \/ NewContextAgent(s, ua)
    \/ NewPage(s)
    \/ PageOn(s)
    \/ Observe(s)
    \/ ForNext(s)
    \/ GotoReturns(s)
    \/ WaitReturns(s)
    \/ NavigationRaises(s)
    \/ ForExit(s)
    \/ ContextClose(s)
    \/ BrowserClose(s)
    \/ PlaywrightExit(s)
    \/ ScanRaises(s)

\* One step of fetch_video_url of src/video.py, likewise.
VideoScan(s, e, ua) ==
    \/ video_fetch_video_url(s)
    \/ video_StartPlaywright(s)
    \/ video_LaunchEngine(s, e)
    \/ video_NewContextAgent(s, ua)
    \/ video_NewPage(s)
    \/ video_PageOn(s)
    \/ video_Observe(s)
    \/ video_ForNext(s)
    \/ video_GotoReturns(s)
    \/ video_WaitReturns(s)
    \/ video_NavigationRaises(s)
    \/ video_ForExit(s)
    \/ video_ContextClose(s)
    \/ video_BrowserClose(s)
    \/ video_PlaywrightExit(s)
    \/ video_ScanRaises(s)

\* fetch_video_url of the file that invocation s runs.
AppStep(s) ==
    /\ s \in scans
    /\ impl[s] = "app"
    /\ AppScan(s, "firefox", FirefoxAgent)

VideoStep(s) ==
    /\ s \in scans
    /\ impl[s] = "video"
    /\ VideoScan(s, "chromium", ChromiumAgent)

BothTitles == {<<"O">>, <<"U+00E9", " ", "O">>}

InitBoth ==
    /\ scans = {1}
    /\ sys_argv = [s \in scans |-> <<>>]
    /\ impl \in [scans -> {"app", "video"}]
    /\ pc = [s \in scans |-> "build"]
    /\ title \in [scans -> BothTitles]
    /\ season = [s \in scans |-> <<"1">>]
    /\ episode = [s \in scans |-> <<"1">>]
    /\ calls = [s \in scans |-> 1]
    /\ slugs = [s \in scans |-> <<>>]
    /\ candidates = [s \in scans |-> <<>>]
    /\ playwright = [s \in scans |-> "none"]
    /\ browser = [s \in scans |-> "none"]
    /\ engine = [s \in scans |-> "none"]
    /\ user_agent = [s \in scans |-> "none"]
    /\ context = [s \in scans |-> "none"]
    /\ page = [s \in scans |-> "none"]
    /\ found = [s \in scans |-> None]
    /\ listening = [s \in scans |-> FALSE]
    /\ idx = [s \in scans |-> 1]
    /\ navigated = [s \in scans |-> <<>>]
    /\ navFailed = [s \in scans |-> FALSE]
    /\ navOk = [s \in scans |-> FALSE]
    /\ scanExc = [s \in scans |-> FALSE]
    /\ lastRequest = [s \in scans |-> None]
    /\ firstMatch = [s \in scans |-> None]
    /\ results = [s \in scans |-> <<>>]
    /\ responses = [s \in scans |-> <<>>]
    /\ stdout = [s \in scans |-> <<>>]

NextBoth == \E s \in ScanIds : AppStep(s) \/ VideoStep(s)

SpecBoth == InitBoth /\ [][NextBoth]_vars

(***************************************************************************)
(* src/video.py run as a program, lines 106-118.                           *)
(***************************************************************************)
\* The command-line arguments a run is started with, after the program name.
ArgValues == {<<"O">>, <<"1">>}
Argvs == {<<"video.py">> \o a : a \in SeqsUpTo(ArgValues, MaxArgs)}

UsageLine == <<"U","s","a","g","e",":"," ","p","y","t","h","o","n"," ","v","i","d","e","o",".","p","y"," ","'","a","n","i","m","e"," ","t","i","t","l","e","'"," ","s","e","a","s","o","n"," ","e","p","i","s","o","d","e">>
ExampleLine == <<"E","x","a","m","p","l","e",":"," ","p","y","t","h","o","n"," ","v","i","d","e","o",".","p","y"," ","'","s","h","i","n","c","h","a","n","'"," ","1"," ","1">>

\* The "message" values of the dictionaries, as characters.
MessageChars(m) ==
    CASE m = "Video URL found successfully" -> <<"V","i","d","e","o"," ","U","R","L"," ","f","o","u","n","d"," ","s","u","c","c","e","s","s","f","u","l","l","y">>
      [] m = "No video URL found" -> <<"N","o"," ","v","i","d","e","o"," ","U","R","L"," ","f","o","u","n","d">>
      [] m = "Failed to fetch video URL" -> <<"F","a","i","l","e","d"," ","t","o"," ","f","e","t","c","h"," ","v","i","d","e","o"," ","U","R","L">>

\* json.dumps on a str with the default ensure_ascii: the quote, the backslash
\* and the control characters are escaped.
RECURSIVE JsonEscape(_)
JsonEscape(str) ==
    IF str = <<>> THEN <<>>
    ELSE (CASE Head(str) = "\"" -> <<"\\", "\"">>
            [] Head(str) = "\\" -> <<"\\", "\\">>
            [] Head(str) = "\n" -> <<"\\", "n">>
            [] Head(str) = "\t" -> <<"\\", "t">>
            [] OTHER -> <<Head(str)>>) \o JsonEscape(Tail(str))

JsonString(str) == <<"\"">> \o JsonEscape(str) \o <<"\"">>
JsonBool(b) == IF b THEN <<"t","r","u","e">> ELSE <<"f","a","l","s","e">>

\* json.dumps(result) for the dictionaries of fetch_video_url: the keys in
\* insertion order, ", " and ": " as separators.
json_dumps(result) ==
    Concat(<< <<"{">>,
              JsonString(<<"s","u","c","c","e","s","s">>), <<":", " ">>, JsonBool(result.success), <<",", " ">>,
              IF "video_url" \in DOMAIN result
              THEN JsonString(<<"v","i","d","e","o","_","u","r","l">>) \o <<":", " ">> \o JsonString(result.video_url)
              ELSE JsonString(<<"e","r","r","o","r">>) \o <<":", " ">> \o JsonString(result.error),
              <<",", " ">>,
              JsonString(<<"m","e","s","s","a","g","e">>), <<":", " ">>, JsonString(MessageChars(result.message)),
              <<"}">> >>)

InitCli ==
    /\ scans = {1}
    /\ sys_argv \in [scans -> Argvs]
    /\ impl = [s \in scans |-> "video"]
    /\ pc = [s \in scans |-> "idle"]
    /\ title = [s \in scans |-> None]
    /\ season = [s \in scans |-> None]
    /\ episode = [s \in scans |-> None]
    /\ calls = [s \in scans |-> 0]
    /\ slugs = [s \in scans |-> <<>>]
    /\ candidates = [s \in scans |-> <<>>]
    /\ playwright = [s \in scans |-> "none"]
    /\ browser = [s \in scans |-> "none"]
    /\ engine = [s \in scans |-> "none"]
    /\ user_agent = [s \in scans |-> "none"]
    /\ context = [s \in scans |-> "none"]
    /\ page = [s \in scans |-> "none"]
    /\ found = [s \in scans |-> None]
    /\ listening = [s \in scans |-> FALSE]
    /\ idx = [s \in scans |-> 1]
    /\ navigated = [s \in scans |-> <<>>]
    /\ navFailed = [s \in scans |-> FALSE]
    /\ navOk = [s \in scans |-> FALSE]
    /\ scanExc = [s \in scans |-> FALSE]
    /\ lastRequest = [s \in scans |-> None]
    /\ firstMatch = [s \in scans |-> None]
    /\ results = [s \in scans |-> <<>>]
    /\ responses = [s \in scans |-> <<>>]
    /\ stdout = [s \in scans |-> <<>>]

\* Faulty variant of main: the test is len(sys.argv) >= 4.
main_at_least(s) ==
    /\ s \in scans
    /\ pc[s] = "idle"
    /\ IF Len(sys_argv[s]) >= 4
       THEN /\ title' = [title EXCEPT ![s] = sys_argv[s][2]]
            /\ season' = [season EXCEPT ![s] = sys_argv[s][3]]
            /\ episode' = [episode EXCEPT ![s] = sys_argv[s][4]]
            /\ calls' = [calls EXCEPT ![s] = @ + 1]
            /\ pc' = [pc EXCEPT ![s] = "build"]
            /\ stdout' = stdout
       ELSE /\ stdout' = [stdout EXCEPT ![s] = @ \o <<UsageLine, ExampleLine>>]
            /\ pc' = [pc EXCEPT ![s] = "exited"]
            /\ UNCHANGED <<title, season, episode, calls>>
    /\ UNCHANGED <<scans, sys_argv, impl, slugs, candidates, sessionVars, observerVars,
                   loopVars, scanExc, results, responses, configVars>>

\* Lines 109-118 up to the call: with three arguments they are passed to
\* fetch_video_url as they are, otherwise the two usage lines are printed.
main(s) ==
    /\ s \in scans
    /\ pc[s] = "idle"
    /\ IF Len(sys_argv[s]) = 4
       THEN /\ title' = [title EXCEPT ![s] = sys_argv[s][2]]
            /\ season' = [season EXCEPT ![s] = sys_argv[s][3]]
            /\ episode' = [episode EXCEPT ![s] = sys_argv[s][4]]
            /\ calls' = [calls EXCEPT ![s] = @ + 1]
            /\ pc' = [pc EXCEPT ![s] = "build"]
            /\ stdout' = stdout
       ELSE /\ stdout' = [stdout EXCEPT ![s] = @ \o <<UsageLine, ExampleLine>>]
            /\ pc' = [pc EXCEPT ![s] = "exited"]
            /\ UNCHANGED <<title, season, episode, calls>>
    /\ UNCHANGED <<scans, sys_argv, impl, slugs, candidates, sessionVars, observerVars,
                   loopVars, scanExc, results, responses, configVars>>

\* Line 115: print(json.dumps(result)), and the program ends.
PrintResult(s) ==
    /\ s \in scans
    /\ pc[s] = "returned"
    /\ stdout' = [stdout EXCEPT ![s] =
           Append(@, json_dumps(results[s][Len(results[s])]))]
    /\ pc' = [pc EXCEPT ![s] = "exited"]
    /\ UNCHANGED <<inputVars, calls, slugs, candidates, sessionVars, observerVars,
                   loopVars, scanExc, results, responses, configVars>>

NextCli ==
    \E s \in ScanIds :
        \/ main(s)
        \/ video_fetch_video_url(s)
        \/ video_StartPlaywright(s)
        \/ video_Launch(s)
        \/ video_NewContext(s)
        \/ video_NewPage(s)
        \/ video_PageOn(s)
        \/ video_Observe(s)
        \/ video_ForNext(s)
        \/ video_GotoReturns(s)
        \/ video_WaitReturns(s)
        \/ video_NavigationRaises(s)
        \/ video_ForExit(s)
        \/ video_ContextClose(s)
        \/ video_BrowserClose(s)
        \/ video_PlaywrightExit(s)
        \/ video_ScanRaises(s)
        \/ PrintResult(s)

SpecCli == InitCli /\ [][NextCli]_vars

(***************************************************************************)
(* Two scans at once: two requests are served on two threads, each inside  *)
(* its own call of fetch_video_url, and their steps interleave freely.     *)
(***************************************************************************)
InitConc ==
    /\ scans = ScanIds
    /\ sys_argv = [s \in scans |-> <<>>]
    /\ impl = [s \in scans |-> "app"]
    /\ pc = [s \in scans |-> "build"]
    /\ title = [s \in scans |-> <<"O">>]
    /\ season = [s \in scans |-> <<"1">>]
    /\ episode = [s \in scans |-> <<"1">>]
    /\ calls = [s \in scans |-> 1]
    /\ slugs = [s \in scans |-> <<>>]
    /\ candidates = [s \in scans |-> <<>>]
    /\ playwright = [s \in scans |-> "none"]
    /\ browser = [s \in scans |-> "none"]
    /\ engine = [s \in scans |-> "none"]
    /\ user_agent = [s \in scans |-> "none"]
    /\ context = [s \in scans |-> "none"]
    /\ page = [s \in scans |-> "none"]
    /\ found = [s \in scans |-> None]
    /\ listening = [s \in scans |-> FALSE]
    /\ idx = [s \in scans |-> 1]
    /\ navigated = [s \in scans |-> <<>>]
    /\ navFailed = [s \in scans |-> FALSE]
    /\ navOk = [s \in scans |-> FALSE]
    /\ scanExc = [s \in scans |-> FALSE]
    /\ lastRequest = [s \in scans |-> None]
    /\ firstMatch = [s \in scans |-> None]
    /\ results = [s \in scans |-> <<>>]
    /\ responses = [s \in scans |-> <<>>]
    /\ stdout = [s \in scans |-> <<>>]

\* The steps of a scan in which nothing raises.
NextConc ==
    \E s \in ScanIds :
        \/ fetch_video_url(s)
        \/ StartPlaywright(s)
        \/ Launch(s)
        \/ NewContext(s)
        \/ NewPage(s)
        \/ PageOn(s)
        \/ Observe(s)
        \/ ForNext(s)
        \/ GotoReturns(s)
        \/ WaitReturns(s)
        \/ ForExit(s)
        \/ ContextClose(s)
        \/ BrowserClose(s)
        \/ PlaywrightExit(s)

SpecConc == InitConc /\ [][NextConc]_vars

(***************************************************************************)
(* Properties.                                                             *)
(***************************************************************************)
\* fetch_video_url has returned to its caller.
Returned(s) == pc[s] \in {"returned", "responded"}
LastResult(s) == results[s][Len(results[s])]
LastResponse(s) == responses[s][Len(responses[s])]
NumCandidates == 8

\* C1: once the observer has captured a match, no further page.goto is
\* started: in every step taken while found holds a match, the list of
\* navigated candidates stays as it is.
C1_NoNavigationAfterMatch ==
    [][\A s \in scans : Truthy(found[s]) => navigated'[s] = navigated[s]]_vars

\* C1 witness: a scan returned with a match captured on the 3rd of its 8
\* candidates, after exactly 3 navigations.
C1_Witness ==
    \E s \in scans :
        /\ Returned(s)
        /\ Truthy(found[s])
        /\ Len(candidates[s]) = NumCandidates
        /\ navigated[s] = <<1, 2, 3>>

\* C2 (as claimed): whenever fetch_video_url has returned after the browser
\* was launched, the browser is closed and the context, if it was created,
\* is closed.
C2_SessionClosedOnEveryExit ==
    \A s \in scans :
        (Returned(s) /\ browser[s] # "none") =>
            /\ browser[s] = "closed"
            /\ context[s] \in {"none", "closed"}

\* C3 (as claimed): whenever an exception was raised at any point of
\* fetch_video_url, navigation included, the function has returned one
\* dictionary and its success is false.
C3_AnyExceptionGivesFailure ==
    \A s \in scans :
        (Returned(s) /\ (scanExc[s] \/ navFailed[s])) =>
            /\ Len(results[s]) = 1
            /\ ~LastResult(s).success

\* C3 (amended): fetch_video_url never raises, it returns one dictionary; an
\* exception raised outside the per-candidate try gives success=false; an
\* exception raised by a navigation or its settle wait is swallowed, and
\* unless a scan-level exception follows the result is then success=true
\* exactly when a match was captured.
C3_NothingEscapes ==
    \A s \in scans :
        (Returned(s) /\ calls[s] > 0) =>
            /\ Len(results[s]) = 1
            /\ scanExc[s] => ~LastResult(s).success
            /\ (navFailed[s] /\ ~scanExc[s]) =>
                   (LastResult(s).success <=> firstMatch[s] # None)

\* C3 witness: a scan-level exception was raised and the failure dictionary
\* returned, after a navigation had failed too.
C3_Witness ==
    \E s \in scans :
        /\ Returned(s)
        /\ scanExc[s]
        /\ navFailed[s]
        /\ Len(results[s]) = 1
        /\ ~LastResult(s).success

\* C4: an invocation of fetch_video_url produces exactly one result (none
\* before it returns, one after), and success=true goes with a video_url and
\* no error, success=false with an error and no video_url.
C4_OneWellFormedResult ==
    \A s \in scans :
        /\ Len(results[s]) = (IF Returned(s) /\ calls[s] > 0 THEN 1 ELSE 0)
        /\ \A k \in DOMAIN results[s] :
             LET r == results[s][k]
             IN  IF r.success
                 THEN /\ "video_url" \in DOMAIN r
                      /\ Truthy(r.video_url)
                      /\ "error" \notin DOMAIN r
                 ELSE /\ "error" \in DOMAIN r
                      /\ Truthy(r.error)
                      /\ "video_url" \notin DOMAIN r

\* C4 witness: a scan returned the success dictionary.
C4_Witness ==
    \E s \in scans :
        /\ Returned(s)
        /\ Len(results[s]) = 1
        /\ LastResult(s).success
        /\ LastResult(s).video_url = found[s]

\* C5: a navigation failure is never fatal and never retried.  A step that
\* leaves page.goto or the settle wait of candidate i goes back to the loop at
\* candidate i + 1 and returns nothing; no position is navigated twice; and a
\* scan whose 8 navigations all failed, with no matching request observed and
\* no scan-level exception, returns the 'No video URL found' result.
C5_Step ==
    \A s \in scans :
        (pc[s] \in {"goto", "wait"} /\ pc'[s] # pc[s]) =>
            /\ pc'[s] \in {"wait", "loop"}
            /\ pc'[s] = "loop" => idx'[s] = idx[s] + 1
            /\ results'[s] = results[s]
            /\ navigated'[s] = navigated[s]

C5_State ==
    \A s \in scans :
        /\ \A j, k \in DOMAIN navigated[s] :
               navigated[s][j] = navigated[s][k] => j = k
        /\ (/\ Returned(s)
            /\ Len(navigated[s]) = NumCandidates
            /\ navFailed[s] /\ ~navOk[s]
            /\ firstMatch[s] = None
            /\ ~scanExc[s]) => LastResult(s) = NotFoundResult

C5_NavigationFailureNotFatal == [](C5_State) /\ [][C5_Step]_vars

\* C5 witness: all 8 navigations failed, nothing matched, and the scan
\* returned the 'No video URL found' result.
C5_Witness ==
    \E s \in scans :
        /\ Returned(s)
        /\ navigated[s] = <<1, 2, 3, 4, 5, 6, 7, 8>>
        /\ navFailed[s] /\ ~navOk[s]
        /\ firstMatch[s] = None
        /\ LastResult(s) = NotFoundResult

\* C6: a scan in which every navigation succeeded and no matching request
\* was observed (and no scan-level exception was raised) returns
\* success=false with the 'No video URL found' error, and the handler
\* answers 404.
C6_NotFoundIs404 ==
    \A s \in scans :
        (/\ pc[s] = "responded"
         /\ calls[s] > 0
         /\ ~navFailed[s]
         /\ ~scanExc[s]
         /\ firstMatch[s] = None) =>
            /\ ~LastResult(s).success
            /\ LastResult(s).error = NotFoundError
            /\ LastResult(s).message = "No video URL found"
            /\ LastResponse(s).body = LastResult(s)
            /\ LastResponse(s).status = 404

\* C6 witness: 8 successful navigations, no match, answered 404.
C6_Witness ==
    \E s \in scans :
        /\ pc[s] = "responded"
        /\ Len(navigated[s]) = NumCandidates
        /\ navOk[s] /\ ~navFailed[s] /\ ~scanExc[s]
        /\ firstMatch[s] = None
        /\ lastRequest[s] # None
        /\ LastResponse(s).status = 404

\* C7 (as claimed): every scan-level failure, whatever the text of the
\* exception, gives success=false with the message 'Failed to fetch video
\* URL' and is answered with status 500.
C7_ScanFailureIs500 ==
    \A s \in scans :
        (pc[s] = "responded" /\ scanExc[s]) =>
            /\ ~LastResult(s).success
            /\ LastResult(s).message = "Failed to fetch video URL"
            /\ LastResponse(s).status = 500

\* The request of invocation s fails validation: a parameter is absent or
\* empty, or season or episode is not the text of an integer.
BadRequest(s) ==
    \/ title[s] = None \/ title[s] = <<>>
    \/ season[s] = None \/ season[s] = <<>>
    \/ episode[s] = None \/ episode[s] = <<>>
    \/ ~ParsesAsInt(season[s])
    \/ ~ParsesAsInt(episode[s])

\* C8: a request that fails validation is answered 400 with success=false
\* and never reaches fetch_video_url (no call, no playwright, no browser);
\* and fetch_video_url is only ever invoked for a request that passed.
C8_ValidationBeforeScan ==
    \A s \in scans :
        pc[s] # "idle" =>
            /\ BadRequest(s) =>
                   /\ pc[s] = "responded"
                   /\ Len(responses[s]) = 1
                   /\ LastResponse(s).status = 400
                   /\ ~LastResponse(s).body.success
                   /\ calls[s] = 0
                   /\ playwright[s] = "none"
                   /\ browser[s] = "none"
            /\ calls[s] > 0 => ~BadRequest(s)

\* C8 witness: a request with a non-numeric episode was answered 400.
C8_Witness ==
    \E s \in scans :
        /\ pc[s] = "responded"
        /\ Truthy(title[s]) /\ Truthy(season[s]) /\ Truthy(episode[s])
        /\ ParsesAsInt(season[s])
        /\ ~ParsesAsInt(episode[s])
        /\ LastResponse(s).status = 400
        /\ calls[s] = 0

\* The k-th URL the candidate list is to hold, given the two slugs: group 1
\* is the hyphenated slug, group 2 the percent-encoded one; within a group
\* epi/<slug>-<s>x<e>/, episodes/<slug>-<s>x<e>/, epi/<slug>/<s>x<e>/,
\* episodes/<slug>/<s>x<e>/.
ExpectedCandidate(pair, se, ep, k) ==
    LET slug == pair[((k - 1) \div 4) + 1]
        j == (k - 1) % 4
        prefix == IF j \in {0, 2}
                  THEN <<"e","p","i","/">>
                  ELSE <<"e","p","i","s","o","d","e","s","/">>
        join == IF j < 2 THEN <<"-">> ELSE <<"/">>
    IN  SiteUrl \o prefix \o slug \o join \o se \o <<"x">> \o ep \o <<"/">>

\* C9: the candidate list has exactly 8 entries in the stated order, and the
\* navigations performed are a prefix of it in list order, each position at
\* most once.
C9_CandidateOrder ==
    \A s \in scans :
        /\ (calls[s] > 0 /\ pc[s] # "build") =>
               /\ Len(candidates[s]) = NumCandidates
               /\ LET pair == make_slugs(title[s])
                  IN  candidates[s] =
                          [k \in 1..NumCandidates |->
                              ExpectedCandidate(pair, season[s], episode[s], k)]
        /\ Len(navigated[s]) <= Len(candidates[s])
        /\ \A k \in DOMAIN navigated[s] : navigated[s][k] = k

\* C9 witness: a scan over a title whose two slugs differ navigated all 8
\* candidates.
C9_Witness ==
    \E s \in scans :
        /\ Returned(s)
        /\ navigated[s] = <<1, 2, 3, 4, 5, 6, 7, 8>>
        /\ candidates[s][5] # candidates[s][1]

\* C10: found changes at most once.  A step that changes found starts from
\* None, sets it to the match of the request just observed, which is the
\* first matching request of the scan, and deregisters the observer; once
\* found holds a match the observer is not registered, so no later request
\* changes it; a non-matching request never sets it.
C10_Step ==
    \A s \in scans :
        /\ found'[s] # found[s] =>
               /\ found[s] = None
               /\ lastRequest'[s] # None
               /\ found'[s] = VideoSearch(lastRequest'[s])
               /\ found'[s] = firstMatch'[s]
               /\ listening[s] /\ ~listening'[s]
        /\ found[s] # None => found'[s] = found[s]

C10_State ==
    \A s \in scans : found[s] # None => ~listening[s]

C10_FoundSetOnce == [](C10_State) /\ [][C10_Step]_vars

\* C10 witness: after the first match another matching request, with a
\* different match, was observed and found kept the first.
C10_Witness ==
    \E s \in scans :
        /\ found[s] # None
        /\ lastRequest[s] # None
        /\ VideoSearch(lastRequest[s]) # None
        /\ VideoSearch(lastRequest[s]) # found[s]
        /\ ~listening[s]

\* m is a pattern-matching portion of url: it lies in url, begins with the
\* video-host prefix in any letter case, goes on with one or more characters
\* of the class, and is not followed by another one.
IsMatchIn(m, url) ==
    \E p \in 1..Len(url) :
        /\ p + Len(m) - 1 <= Len(url)
        /\ SubSeq(url, p, p + Len(m) - 1) = m
        /\ Len(m) > Len(VideoPrefix)
        /\ lower(SubSeq(m, 1, Len(VideoPrefix))) = VideoPrefix
        /\ \A k \in (Len(VideoPrefix) + 1)..Len(m) : IsIdChar(m[k])
        /\ p + Len(m) <= Len(url) => ~IsIdChar(url[p + Len(m)])

\* C16: when no scan-level exception occurs, the result is success=true
\* exactly when some request emitted by the page between the registration of
\* the observer and the end of context.close() matched the pattern, and
\* video_url is then the matching portion of the first such request;
\* otherwise the result is the 'No video URL found' dictionary.
C16_ResultFollowsFirstMatch ==
    \A s \in scans :
        (Returned(s) /\ calls[s] > 0 /\ ~scanExc[s]) =>
            IF firstMatch[s] # None
            THEN /\ LastResult(s).success
                 /\ LastResult(s).video_url = firstMatch[s]
                 /\ \E r \in Requests : IsMatchIn(firstMatch[s], r)
            ELSE /\ ~LastResult(s).success
                 /\ LastResult(s).error = NotFoundError

\* C16 witness: the only match was observed on the last candidate, inside a
\* longer URL, and the scan returned its matching portion.
C16_Witness ==
    \E s \in scans :
        /\ Returned(s)
        /\ ~scanExc[s]
        /\ navigated[s] = <<1, 2, 3, 4, 5, 6, 7, 8>>
        /\ firstMatch[s] # None
        /\ firstMatch[s] \notin Requests
        /\ LastResult(s).success
        /\ LastResult(s).video_url = firstMatch[s]

\* C17: the events of a scan come in order.  A navigation starts only with
\* the browser, the context and the page open and the observer registered;
\* the browser is launched once and closed only after the context; the
\* context is closed once and nothing is navigated after that; and a result
\* of a scan without scan-level exception is returned only with the context
\* and the browser closed.
C17_Step ==
    \A s \in scans :
        /\ navigated'[s] # navigated[s] =>
               /\ browser[s] = "open" /\ context[s] = "open" /\ page[s] = "open"
               /\ listening[s]
        /\ browser'[s] # browser[s] =>
               \/ browser[s] = "none" /\ browser'[s] = "open"
               \/ browser[s] = "open" /\ browser'[s] = "closed"
                      /\ context[s] = "closed"
        /\ context'[s] # context[s] =>
               \/ context[s] = "none" /\ context'[s] = "open"
                      /\ browser[s] = "open"
               \/ context[s] = "open" /\ context'[s] = "closed"
        /\ page'[s] = "open" /\ page[s] # "open" =>
               page[s] = "none" /\ context[s] = "open"
        /\ listening'[s] /\ ~listening[s] =>
               page[s] = "open" /\ navigated[s] = <<>>
        /\ (results'[s] # results[s] /\ ~scanExc'[s]) =>
               browser[s] = "closed" /\ context[s] = "closed"

C17_State ==
    \A s \in scans :
        /\ context[s] # "open" => navigated[s] = <<>> \/ context[s] = "closed"
        /\ (Returned(s) /\ calls[s] > 0 /\ ~scanExc[s]) =>
               /\ browser[s] = "closed"
               /\ context[s] = "closed"
               /\ Len(results[s]) = 1

C17_EventOrder == [](C17_State) /\ [][C17_Step]_vars

\* C17 witness: a scan without scan-level exception navigated, closed the
\* context and the browser and returned its result.
C17_Witness ==
    \E s \in scans :
        /\ Returned(s)
        /\ ~scanExc[s]
        /\ Len(navigated[s]) >= 2
        /\ context[s] = "closed"
        /\ browser[s] = "closed"
        /\ Len(results[s]) = 1

\* C18: a match captured during the navigation of candidate k survives the
\* failure of that navigation.  The step in which page.goto or the settle
\* wait raises leaves found as it is; with found set no candidate is
\* navigated any more; and unless a scan-level exception follows, the scan
\* returns success=true with the captured URL.
C18_Step ==
    \A s \in scans :
        /\ (pc[s] \in {"goto", "wait"} /\ pc'[s] = "loop") =>
               found'[s] = found[s]
        /\ (found[s] # None /\ pc[s] = "loop") =>
               pc'[s] \in {"loop", "context_close"}
        /\ found[s] # None => navigated'[s] = navigated[s]

C18_State ==
    \A s \in scans :
        (Returned(s) /\ calls[s] > 0 /\ navFailed[s] /\ ~scanExc[s]
            /\ firstMatch[s] # None) =>
                /\ found[s] = firstMatch[s]
                /\ LastResult(s) = SuccessResult(firstMatch[s])

C18_MatchSurvivesNavigationFailure == [](C18_State) /\ [][C18_Step]_vars

\* C18 witness: the third navigation matched and then raised; it was the last
\* one, and the scan returned the match.
C18_Witness ==
    \E s \in scans :
        /\ Returned(s)
        /\ ~scanExc[s]
        /\ navigated[s] = <<1, 2, 3>>
        /\ navFailed[s] /\ ~navOk[s]
        /\ idx[s] = 4
        /\ LastResult(s).success
        /\ LastResult(s).video_url = firstMatch[s]

\* C12: every scan terminates.  Under SpecLive an invocation of
\* fetch_video_url eventually returns; it never navigates more than 8 times;
\* and when it has returned, a match was captured, or all 8 candidates were
\* navigated, or a scan-level exception was raised.
C12_State ==
    \A s \in scans :
        /\ Len(navigated[s]) <= NumCandidates
        /\ (Returned(s) /\ calls[s] > 0) =>
               \/ found[s] # None
               \/ Len(navigated[s]) = NumCandidates
               \/ scanExc[s]

C12_ScanTerminates ==
    /\ [](C12_State)
    /\ \A s \in ScanIds :
           (s \in scans /\ calls[s] > 0) ~> (s \in scans /\ Returned(s))

\* C12 witness: a scan returned after 8 navigations with nothing captured
\* and no scan-level exception.
C12_Witness ==
    \E s \in scans :
        /\ Returned(s)
        /\ Len(navigated[s]) = NumCandidates
        /\ found[s] = None
        /\ ~scanExc[s]
        /\ Len(results[s]) = 1

(***************************************************************************)
(* Slugs.                                                                  *)
(***************************************************************************)
IsLetter(c) ==
    c \in AsciiLetters \cup Range(UnicodeUpper) \cup Range(UnicodeLower)
IsUpper(c) == c \in Range(UpperChars) \cup Range(UnicodeUpper)
OnlyLettersDigitsSpacesHyphens(t) ==
    \A k \in DOMAIN t : IsLetter(t[k]) \/ t[k] \in AsciiDigits \/ t[k] \in {" ", "-"}

\* C13: for a title of letters, digits, spaces and hyphens only, the first
\* element make_slugs returned has no upper-case character, neither starts nor
\* ends with a hyphen, and has no whitespace character.
C13_SlugIsClean ==
    \A s \in scans :
        (slugs[s] # <<>> /\ OnlyLettersDigitsSpacesHyphens(title[s])) =>
            LET slug == slugs[s][1]
            IN  /\ \A k \in DOMAIN slug : ~IsUpper(slug[k]) /\ ~IsSpace(slug[k])
                /\ slug # <<>> => (Head(slug) # "-" /\ slug[Len(slug)] # "-")

\* C13 witness: an upper-case letter, two spaces and a letter give "a-b"; a
\* title of hyphens and spaces around a non-ASCII capital gives that letter in
\* lower case alone.
C13_Witness ==
    \/ \E s \in scans :
        /\ title[s] = <<"A", " ", " ", "b">>
        /\ slugs[s] # <<>>
        /\ slugs[s][1] = <<"a", "-", "b">>
    \/ \E s \in scans :
        /\ title[s] = <<"-", " ", "U+00C9", "-">>
        /\ slugs[s] # <<>>
        /\ slugs[s][1] = <<"U+00E9">>

OnlyUnreserved(slug) ==
    \A k \in DOMAIN slug : slug[k] \in AsciiLetters \cup AsciiDigits \cup {"_", "-"}

\* C14: when the hyphenated slug has only ASCII letters, digits, underscores
\* and hyphens, make_slugs returned two equal strings and candidates 5..8 are
\* the same URLs as candidates 1..4.
C14_EncodingHasNoEffect ==
    \A s \in scans :
        (slugs[s] # <<>> /\ OnlyUnreserved(slugs[s][1])) =>
            /\ slugs[s][2] = slugs[s][1]
            /\ Len(candidates[s]) = NumCandidates
            /\ \A k \in 1..4 : candidates[s][k + 4] = candidates[s][k]

\* C14 witness: punctuation is deleted from "b! 7" and the slug "b-7" is
\* returned twice.
C14_Witness ==
    \E s \in scans :
        /\ title[s] = <<"b", "!", " ", "7">>
        /\ slugs[s] = << <<"b", "-", "7">>, <<"b", "-", "7">> >>
        /\ candidates[s][5] = candidates[s][1]
        /\ candidates[s][1] # candidates[s][3]

(***************************************************************************)
(* The command line of src/video.py.                                       *)
(***************************************************************************)
\* C15: a run with exactly three arguments calls fetch_video_url once, with
\* those arguments, and ends having printed one line, the JSON text of the
\* dictionary returned, in which no line break occurs; a run with any other
\* number of arguments never calls fetch_video_url or starts a browser and
\* ends having printed the two usage lines only.
C15_CommandLine ==
    \A s \in scans :
        IF Len(sys_argv[s]) = 4
        THEN /\ calls[s] <= 1
             /\ pc[s] # "idle" =>
                    /\ calls[s] = 1
                    /\ <<title[s], season[s], episode[s]>> = Tail(sys_argv[s])
             /\ pc[s] # "exited" => stdout[s] = <<>>
             /\ pc[s] = "exited" =>
                    /\ Len(results[s]) = 1
                    /\ stdout[s] = <<json_dumps(results[s][1])>>
                    /\ \A k \in DOMAIN stdout[s][1] : stdout[s][1][k] # "\n"
        ELSE /\ calls[s] = 0
             /\ pc[s] \in {"idle", "exited"}
             /\ playwright[s] = "none" /\ browser[s] = "none"
             /\ Len(results[s]) = 0
             /\ stdout[s] = IF pc[s] = "exited"
                            THEN <<UsageLine, ExampleLine>> ELSE <<>>

\* C15 witness: one run with three arguments has ended after a scan that
\* failed with a two-line exception message, and its output is one line.
C15_Witness ==
    \E s \in scans :
        /\ Len(sys_argv[s]) = 4
        /\ pc[s] = "exited"
        /\ Len(stdout[s]) = 1
        /\ results[s] = <<FailureResult(ExcTimeout)>>

(***************************************************************************)
(* Concurrent scans.                                                       *)
(***************************************************************************)
\* What belongs to one scan: its position, its session, its observer and
\* its result.
ScanState(t) ==
    <<pc[t], playwright[t], browser[t], context[t], page[t], found[t],
      listening[t], idx[t], navigated[t], results[t]>>

C11_Step ==
    /\ \A t \in scans, u \in scans :
        t # u => (ScanState(t)' = ScanState(t) \/ ScanState(u)' = ScanState(u))
    /\ \A t \in scans :
        found'[t] # found[t] =>
            /\ page[t] = "open" /\ listening[t]
            /\ found'[t] = VideoSearch(lastRequest'[t])
            /\ \A u \in scans \ {t} : lastRequest'[u] = lastRequest[u]

C11_State ==
    \A t \in scans :
        /\ found[t] # None => found[t] = firstMatch[t]
        /\ Returned(t) => results[t] = <<ReturnValue(firstMatch[t])>>

\* C11: with two scans interleaved, a step changes the position, session,
\* observer, found and result of one scan at most; found of a scan changes
\* only while that scan's own page is open with its observer registered, to
\* the match in the request that page has just emitted, no other scan's page
\* emitting in that step; and the result a scan returns is the one determined
\* by the first matching request of its own page.
C11_ScansAreIsolated == [](C11_State) /\ [][C11_Step]_vars

\* C11 witness: both sessions are open inside their loops, scan 1 has
\* captured a match and scan 2, whose page has emitted nothing, has not.
C11_Witness ==
    /\ scans = {1, 2}
    /\ pc[1] \in {"goto", "wait"} /\ pc[2] \in {"goto", "wait"}
    /\ browser[1] = "open" /\ browser[2] = "open"
    /\ found[1] # None
    /\ listening[2] /\ found[2] = None /\ lastRequest[2] = None

(***************************************************************************)
(* src/app.py and src/video.py.                                            *)
(***************************************************************************)
C19_State ==
    \A s \in scans :
        /\ impl[s] = "app" =>
               engine[s] \in {"none", "firefox"} /\ user_agent[s] \in {"none", FirefoxAgent}
        /\ impl[s] = "video" =>
               engine[s] \in {"none", "chromium"} /\ user_agent[s] \in {"none", ChromiumAgent}

C19_Step ==
    \A s \in scans :
        AppScan(s, engine'[s], user_agent'[s]) <=> VideoScan(s, engine'[s], user_agent'[s])

\* C19: whichever file's fetch_video_url runs, from the same state, input,
\* request, navigation outcome or failure, each step it takes is the step
\* the other file's fetch_video_url takes, the engine launched and the user
\* agent of the context apart (firefox and its agent in src/app.py, chromium
\* and its agent in src/video.py); so the navigations and the dictionary
\* returned are the same.
C19_SameScan == [](C19_State) /\ [][C19_Step]_vars

\* C19 witness: fetch_video_url of src/video.py, on chromium, has returned a
\* captured URL after a navigation that failed.
C19_Witness ==
    \E s \in scans :
        /\ impl[s] = "video"
        /\ engine[s] = "chromium"
        /\ user_agent[s] = ChromiumAgent
        /\ pc[s] = "returned"
        /\ navFailed[s]
        /\ Len(navigated[s]) >= 2
        /\ results[s][1].success

====
